---- MODULE Spec2Model ----
(***************************************************************************)
(* Google Drive MCP server (src/src/index.ts): the call-tool dispatcher,   *)
(* the eight tool handlers, the utilities they share and the remote Drive  *)
(* client they call.                                                       *)
(*                                                                         *)
(* Representation.  A JavaScript value is a record [t, s, n]: t is the     *)
(* typeof tag, s the tokens of a string, n the value of a number.  A       *)
(* string is the sequence of its tokens and stands for their               *)
(* concatenation; the token " " is a whitespace character, a digit token   *)
(* is that digit, every other token is a run of non-whitespace characters  *)
(* that is never split.  A text is a sequence of lines, a line the         *)
(* sequence of the values a template literal interpolates.                 *)
(***************************************************************************)
EXTENDS Integers, Sequences, FiniteSets, TLC

\* ------------------------------------------------------------------------
\* JavaScript values
\* ------------------------------------------------------------------------
Undef == [t |-> "undefined", s |-> <<>>, n |-> 0]
Str(toks) == [t |-> "string", s |-> toks, n |-> 0]
Lit(tok) == Str(<<tok>>)
Num(k) == [t |-> "number", s |-> <<>>, n |-> k]
NaN == [t |-> "number", s |-> <<"NaN">>, n |-> 0]

IsString(x) == x.t = "string"
IsNaN(x) == x = NaN

\* ToBoolean: undefined, "", 0 and NaN are falsy.
Truthy(x) ==
  CASE x.t = "undefined" -> FALSE
    [] x.t = "string" -> x.s # <<>>
    [] x.t = "number" -> ~IsNaN(x) /\ x.n # 0
    [] OTHER -> TRUE

\* a || b
Or(a, b) == IF Truthy(a) THEN a ELSE b

\* a default parameter value applies to undefined only
Default(x, d) == IF x = Undef THEN d ELSE x

Whitespace == {" "}
Digits == {"0", "1", "2", "3", "4", "5", "6", "7", "8", "9"}

DigitVal(d) ==
  CASE d = "0" -> 0 [] d = "1" -> 1 [] d = "2" -> 2 [] d = "3" -> 3
    [] d = "4" -> 4 [] d = "5" -> 5 [] d = "6" -> 6 [] d = "7" -> 7
    [] d = "8" -> 8 [] d = "9" -> 9

DigitTok(v) ==
  CASE v = 0 -> "0" [] v = 1 -> "1" [] v = 2 -> "2" [] v = 3 -> "3"
    [] v = 4 -> "4" [] v = 5 -> "5" [] v = 6 -> "6" [] v = 7 -> "7"
    [] v = 8 -> "8" [] v = 9 -> "9"

RECURSIVE TrimStart(_)
TrimStart(s) ==
  IF s # <<>> /\ Head(s) \in Whitespace THEN TrimStart(Tail(s)) ELSE s

RECURSIVE TrimEnd(_)
TrimEnd(s) ==
  IF s # <<>> /\ s[Len(s)] \in Whitespace
  THEN TrimEnd(SubSeq(s, 1, Len(s) - 1))
  ELSE s

\* String.prototype.trim
Trim(s) == TrimEnd(TrimStart(s))

\* String.prototype.startsWith
StartsWith(s, p) == Len(s) >= Len(p) /\ SubSeq(s, 1, Len(p)) = p

RECURSIVE NatToks(_)
NatToks(k) ==
  IF k < 10 THEN <<DigitTok(k)>> ELSE NatToks(k \div 10) \o <<DigitTok(k % 10)>>

\* String(x) for the values the model holds
ToStr(x) ==
  CASE x.t = "string" -> x.s
    [] x.t = "undefined" -> <<"undefined">>
    [] x.t = "number" ->
         IF IsNaN(x) THEN <<"NaN">>
         ELSE IF x.n < 0 THEN <<"-">> \o NatToks(0 - x.n)
         ELSE NatToks(x.n)

RECURSIVE DigitRun(_)
DigitRun(s) ==
  IF s # <<>> /\ Head(s) \in Digits THEN <<Head(s)>> \o DigitRun(Tail(s)) ELSE <<>>

RECURSIVE DigitsVal(_, _)
DigitsVal(ds, acc) ==
  IF ds = <<>> THEN acc ELSE DigitsVal(Tail(ds), acc * 10 + DigitVal(Head(ds)))

\* what parseInt reads of x: leading whitespace is skipped, a sign is
\* optional, and the longest run of digits that follows is taken
IntegerPrefix(x) ==
  LET s0 == TrimStart(ToStr(x))
      s1 == IF s0 # <<>> /\ Head(s0) \in {"-", "+"} THEN Tail(s0) ELSE s0
  IN [neg |-> s0 # <<>> /\ Head(s0) = "-", digits |-> DigitRun(s1)]

\* parseInt(x): NaN is the result when no digit was read
parseInt(x) ==
  LET p == IntegerPrefix(x)
  IN IF p.digits = <<>> THEN NaN
     ELSE IF p.neg THEN Num(0 - DigitsVal(p.digits, 0))
     ELSE Num(DigitsVal(p.digits, 0))

\* Byte counts exceed the range of the integers the checker computes with,
\* so formatFileSize holds its number as a magnitude in base 1024: a
\* sequence of digits 0..1023, lowest first, with no leading zero (0 is <<>>).
RECURSIVE MulAdd(_, _, _)
MulAdd(w, m, carry) ==
  \* w * m + carry
  IF w = <<>>
  THEN IF carry = 0 THEN <<>>
       ELSE <<carry % 1024>> \o MulAdd(<<>>, m, carry \div 1024)
  ELSE LET v == Head(w) * m + carry
       IN <<v % 1024>> \o MulAdd(Tail(w), m, v \div 1024)

RECURSIVE Norm(_)
Norm(w) ==
  IF w # <<>> /\ w[Len(w)] = 0 THEN Norm(SubSeq(w, 1, Len(w) - 1)) ELSE w

RECURSIVE DigitsWide(_, _)
DigitsWide(ds, acc) ==
  IF ds = <<>> THEN Norm(acc)
  ELSE DigitsWide(Tail(ds), MulAdd(acc, 10, DigitVal(Head(ds))))

RECURSIVE DivRem(_, _)
DivRem(w, d) ==
  \* quotient and remainder of w by the small number d
  IF w = <<>> THEN [q |-> <<>>, r |-> 0]
  ELSE LET hi == DivRem(Tail(w), d)
           cur == hi.r * 1024 + Head(w)
       IN [q |-> <<cur \div d>> \o hi.q, r |-> cur % d]

RECURSIVE Decimal(_)
Decimal(w) ==
  IF Norm(w) = <<>> THEN <<>>
  ELSE LET x == DivRem(Norm(w), 10) IN Decimal(x.q) \o <<DigitTok(x.r)>>

\* the decimal digits of w
WideToks(w) == IF Norm(w) = <<>> THEN <<"0">> ELSE Decimal(w)

MathMax(a, b) == IF a >= b THEN a ELSE b
MathMin(a, b) == IF a <= b THEN a ELSE b

\* ------------------------------------------------------------------------
\* Errors and utility functions
\* ------------------------------------------------------------------------
\* new Error(message): message is a string (a token sequence)
Error(msg) == [isError |-> TRUE, message |-> msg]

ErrorMarker == "(x) Error: "

formatError_bare(error) ==
  IF error.isError
  THEN <<  <<Str(error.message)>>  >>
  ELSE <<  <<Str(ToStr(error.message))>>  >>

\* formatError: one line, the marker followed by the message
formatError(error) ==
  IF error.isError
  THEN <<  <<Lit(ErrorMarker), Str(error.message)>>  >>
  ELSE <<  <<Lit(ErrorMarker), Str(ToStr(error.message))>>  >>

Ok(v) == [error |-> Error(<<>>), ok |-> TRUE, value |-> v]
Throw(e) == [error |-> e, ok |-> FALSE, value |-> Undef]

RequiredMsg(name) == <<name, " is required">>
TrimTypeError == Error(<<"value.trim is not a function">>)

\* (a check that accepts whitespace-only values)
validateRequired_noTrim(value, name) ==
  IF ~Truthy(value) THEN Throw(Error(RequiredMsg(name)))
  ELSE IF ~IsString(value) THEN Throw(TrimTypeError)
  ELSE Ok(Str(Trim(value.s)))

\* validateRequired(value, name)
validateRequired(value, name) ==
  IF ~Truthy(value) THEN Throw(Error(RequiredMsg(name)))
  ELSE IF ~IsString(value) THEN Throw(TrimTypeError)
  ELSE IF Trim(value.s) = <<>> THEN Throw(Error(RequiredMsg(name)))
  ELSE Ok(Str(Trim(value.s)))

MissingCredentialsMsg ==
  <<"Missing Google Drive credentials. Set GOOGLE_CLIENT_ID, GOOGLE_CLIENT_SECRET, and GOOGLE_REFRESH_TOKEN">>

\* formatFileSize(bytes)
RECURSIVE ScaleUnit(_, _)
ScaleUnit(whole, unitIndex) ==
  \* the while loop: the unit index reached when it stops. whole is the
  \* integer part of fileSize, which is >= 1024 when it has a second digit;
  \* fileSize /= 1024 moves its lowest digit behind the point
  IF Len(whole) > 1 /\ unitIndex < 4
  THEN ScaleUnit(Tail(whole), unitIndex + 1)
  ELSE unitIndex

Units == <<"B", "KB", "MB", "GB", "TB">>

\* the two decimals of toFixed(2): the fraction part / 1024^Len(part) in
\* hundredths, rounded half up (100 when it rounds up to the next integer)
Hundredths(part) ==
  LET x == MulAdd(part, 200, 0)
      q == IF Len(x) > Len(part) THEN x[Len(part) + 1] ELSE 0
  IN (q + 1) \div 2

\* Number.prototype.toFixed(2) of whole + h / 100, negated when neg
Fixed2(neg, whole, h) ==
  LET int == IF h = 100 THEN MulAdd(whole, 1, 1) ELSE whole
      f == h % 100
  IN (IF neg /\ (Norm(int) # <<>> \/ f # 0) THEN <<"-">> ELSE <<>>)
     \o WideToks(int) \o <<".", DigitTok(f \div 10), DigitTok(f % 10)>>

\* (a variant that tests the parsed number instead of the argument)
formatFileSize_parsedFalsy(bytes) ==
  LET p == IntegerPrefix(bytes)
      size == DigitsWide(p.digits, <<>>)
      k == IF p.neg THEN 0 ELSE ScaleUnit(size, 0)
  IN IF p.digits = <<>> \/ size = <<>> THEN Lit("N/A")
     ELSE Str(Fixed2(p.neg, SubSeq(size, k + 1, Len(size)),
                     Hundredths(SubSeq(size, 1, k)))
              \o <<" ", Units[k + 1]>>)

formatFileSize(bytes) ==
  IF ~Truthy(bytes) THEN Lit("N/A")
  ELSE LET p == IntegerPrefix(bytes)
           size == DigitsWide(p.digits, <<>>)
           k == IF p.neg THEN 0 ELSE ScaleUnit(size, 0)
       IN IF p.digits = <<>> THEN Lit("N/A")
          ELSE Str(Fixed2(p.neg, SubSeq(size, k + 1, Len(size)),
                          Hundredths(SubSeq(size, 1, k)))
                   \o <<" ", Units[k + 1]>>)

\* formatDate(dateString): the locale rendering of the parsed date
formatDate(dateString) ==
  IF ~Truthy(dateString) THEN Lit("N/A")
  ELSE Str(<<"toLocaleString:">> \o ToStr(dateString))

\* ------------------------------------------------------------------------
\* State
\* ------------------------------------------------------------------------
VARIABLES
  env,       \* process.env: the three credential variables, read at start
  pc,        \* "starting" before main has connected, "exited" after a
             \* fatal start, "idle", the await the invocation in flight is
             \* suspended at, or "done" when its result is ready to be sent
  request,   \* the request in flight (or the last one served)
  frame,     \* the suspended handler's local constants
  calls,     \* remote calls issued by the invocation, in order
  replies,   \* what the remote service answered to them, in order
  response,  \* the result returned for the request
  drive      \* the remote store: trashed items and granted permissions

vars == <<env, pc, request, frame, calls, replies, response, drive>>

CLIENT_ID == Or(env.GOOGLE_CLIENT_ID, Str(<<>>))
CLIENT_SECRET == Or(env.GOOGLE_CLIENT_SECRET, Str(<<>>))
REFRESH_TOKEN == Or(env.GOOGLE_REFRESH_TOKEN, Str(<<>>))

\* (a client built without looking at the credentials)
getDriveClient_unchecked == Ok(Lit("drive v3"))

\* getDriveClient()
getDriveClient ==
  IF ~Truthy(CLIENT_ID) \/ ~Truthy(CLIENT_SECRET) \/ ~Truthy(REFRESH_TOKEN)
  THEN Throw(Error(MissingCredentialsMsg))
  ELSE Ok(Lit("drive v3"))

\* ------------------------------------------------------------------------
\* What a handler does up to its next await: it returns a text, or it
\* issues a remote call and suspends.
\* ------------------------------------------------------------------------
NoFrame == [handler |-> "none"]
NoCall == [api |-> "none"]

Return(text) == [frame |-> NoFrame, text |-> text, kind |-> "return",
                 at |-> "done", call |-> NoCall]
Await(at, call, fr) == [frame |-> fr, text |-> <<>>, kind |-> "await",
                        at |-> at, call |-> call]

FolderMime == <<"application/vnd.google-apps.", "folder">>
GoogleAppsPrefix == <<"application/vnd.google-apps.">>

FolderIcon == "[folder]"
FileIcon == "[file]"

\* (entries numbered from the array index, without the + 1)
FileEntry_zeroBased(file, index) ==
  LET isFolder == file.mimeType = Str(FolderMime)
      icon == IF isFolder THEN FolderIcon ELSE FileIcon
  IN << <<Num(index), Lit(". "), Lit(icon), Lit(" "), file.name>>,
        <<Lit("   ID: "), file.id>>,
        <<Lit("   Type: "), file.mimeType>>,
        <<Lit("   Size: "), formatFileSize(file.size)>>,
        <<Lit("   Modified: "), formatDate(file.modifiedTime)>> >>
     \o (IF Truthy(file.webViewLink)
         THEN << <<Lit("   Link: "), file.webViewLink>> >> ELSE <<>>)
     \o << <<>> >>

\* the lines one file adds to a listing (the forEach body of listFiles and
\* searchFiles)
FileEntry(file, index) ==
  LET isFolder == file.mimeType = Str(FolderMime)
      icon == IF isFolder THEN FolderIcon ELSE FileIcon
  IN << <<Num(index + 1), Lit(". "), Lit(icon), Lit(" "), file.name>>,
        <<Lit("   ID: "), file.id>>,
        <<Lit("   Type: "), file.mimeType>>,
        <<Lit("   Size: "), formatFileSize(file.size)>>,
        <<Lit("   Modified: "), formatDate(file.modifiedTime)>> >>
     \o (IF Truthy(file.webViewLink)
         THEN << <<Lit("   Link: "), file.webViewLink>> >> ELSE <<>>)
     \o << <<>> >>

RECURSIVE FileEntries(_, _)
FileEntries(files, index) ==
  IF index >= Len(files) THEN <<>>
  ELSE FileEntry(files[index + 1], index) \o FileEntries(files, index + 1)

\* (a variant that falls back to 10 for NaN only)
PageSizeNum_nanOnly(pageSize) ==
  MathMin(MathMax((IF IsNaN(parseInt(pageSize)) THEN Num(10)
                   ELSE parseInt(pageSize)).n, 1), 100)

PageSizeNum(pageSize) ==
  MathMin(MathMax(Or(parseInt(pageSize), Num(10)).n, 1), 100)

\* (a variant that tests and sends folderId as given)
listFiles_untrimmed(folderId0, pageSize0) ==
  LET folderId == Default(folderId0, Str(<<>>))
      pageSize == Default(pageSize0, Str(<<"1", "0">>))
      client == getDriveClient
      pageSizeNum == PageSizeNum(pageSize)
  IN IF ~client.ok THEN Return(formatError(client.error))
     ELSE LET query == IF Truthy(folderId)
                       THEN <<"trashed = false", " and '">> \o folderId.s
                            \o <<"' in parents">>
                       ELSE <<"trashed = false">>
          IN Await("listFiles:list",
                   [q |-> Str(query), api |-> "files.list",
                    pageSize |-> pageSizeNum, orderBy |-> "modifiedTime desc"],
                   [handler |-> "listFiles"])

\* listFiles, up to the await of drive.files.list
listFiles(folderId0, pageSize0) ==
  LET folderId == Default(folderId0, Str(<<>>))
      pageSize == Default(pageSize0, Str(<<"1", "0">>))
      client == getDriveClient
      pageSizeNum == PageSizeNum(pageSize)
  IN IF ~client.ok THEN Return(formatError(client.error))
     ELSE IF Truthy(folderId) /\ ~IsString(folderId)
     THEN Return(formatError(Error(<<"folderId.trim is not a function">>)))
     ELSE LET query == IF Truthy(folderId) /\ Trim(folderId.s) # <<>>
                       THEN <<"trashed = false", " and '">> \o Trim(folderId.s)
                            \o <<"' in parents">>
                       ELSE <<"trashed = false">>
          IN Await("listFiles:list",
                   [q |-> Str(query), api |-> "files.list",
                    pageSize |-> pageSizeNum, orderBy |-> "modifiedTime desc"],
                   [handler |-> "listFiles"])

\* listFiles, from the completion of drive.files.list
listFiles_listed(r) ==
  IF ~r.ok THEN Return(formatError(r.error))
  ELSE LET files == r.data.files
       IN IF ~files.present \/ Len(files.items) = 0
          THEN Return(<< <<Lit("[folder] No files found")>> >>)
          ELSE Return(<< <<Lit("[folder] Found "), Num(Len(files.items)),
                           Lit(" file(s):")>>, <<>> >>
                      \o FileEntries(files.items, 0))

\* searchFiles, up to the await of drive.files.list
searchFiles(query0, pageSize0) ==
  LET query == Default(query0, Str(<<>>))
      pageSize == Default(pageSize0, Str(<<"1", "0">>))
      searchQuery == validateRequired(query, "query")
      client == getDriveClient
      pageSizeNum == PageSizeNum(pageSize)
  IN IF ~searchQuery.ok THEN Return(formatError(searchQuery.error))
     ELSE IF ~client.ok THEN Return(formatError(client.error))
     ELSE Await("searchFiles:list",
                [q |-> Str(<<"name contains '">> \o searchQuery.value.s
                           \o <<"' and trashed = false">>),
                 api |-> "files.list", pageSize |-> pageSizeNum,
                 orderBy |-> "modifiedTime desc"],
                [handler |-> "searchFiles", searchQuery |-> searchQuery.value])

\* searchFiles, from the completion of drive.files.list
searchFiles_listed(fr, r) ==
  IF ~r.ok THEN Return(formatError(r.error))
  ELSE LET files == r.data.files
       IN IF ~files.present \/ Len(files.items) = 0
          THEN Return(<< <<Lit("[search] No files found matching \""),
                           fr.searchQuery, Lit("\"")>> >>)
          ELSE Return(<< <<Lit("[search] Found "), Num(Len(files.items)),
                           Lit(" file(s) matching \""), fr.searchQuery,
                           Lit("\":")>>, <<>> >>
                      \o FileEntries(files.items, 0))

\* (a variant that builds the client before it validates)
getFileMetadata_clientFirst(fileId0) ==
  LET fileId == Default(fileId0, Str(<<>>))
      client == getDriveClient
      validFileId == validateRequired(fileId, "fileId")
  IN IF ~client.ok THEN Return(formatError(client.error))
     ELSE IF ~validFileId.ok THEN Return(formatError(validFileId.error))
     ELSE Await("getFileMetadata:get",
                [api |-> "files.get", fileId |-> validFileId.value,
                 fields |-> "*", alt |-> "json"],
                [handler |-> "getFileMetadata"])

\* getFileMetadata, up to the await of drive.files.get
getFileMetadata(fileId0) ==
  LET fileId == Default(fileId0, Str(<<>>))
      validFileId == validateRequired(fileId, "fileId")
      client == getDriveClient
  IN IF ~validFileId.ok THEN Return(formatError(validFileId.error))
     ELSE IF ~client.ok THEN Return(formatError(client.error))
     ELSE Await("getFileMetadata:get",
                [api |-> "files.get", fileId |-> validFileId.value,
                 fields |-> "*", alt |-> "json"],
                [handler |-> "getFileMetadata"])

\* getFileMetadata, from the completion of drive.files.get
getFileMetadata_got(r) ==
  IF ~r.ok THEN Return(formatError(r.error))
  ELSE LET file == r.data
       IN Return(
            << <<Lit("[file] File Metadata:")>>, <<>>,
               <<Lit("Name: "), file.name>>,
               <<Lit("ID: "), file.id>>,
               <<Lit("Type: "), file.mimeType>>,
               <<Lit("Size: "), formatFileSize(file.size)>>,
               <<Lit("Created: "), formatDate(file.createdTime)>>,
               <<Lit("Modified: "), formatDate(file.modifiedTime)>> >>
            \o (IF file.owners.present /\ Len(file.owners.items) > 0
                THEN << <<Lit("Owner: "),
                          Or(file.owners.items[1].displayName,
                             file.owners.items[1].emailAddress)>> >>
                ELSE <<>>)
            \o (IF Truthy(file.webViewLink)
                THEN << <<Lit("View Link: "), file.webViewLink>> >> ELSE <<>>)
            \o (IF Truthy(file.webContentLink)
                THEN << <<Lit("Download Link: "), file.webContentLink>> >>
                ELSE <<>>)
            \o (IF Truthy(file.description)
                THEN << <<Lit("Description: "), file.description>> >> ELSE <<>>)
            \o (IF file.shared THEN << <<Lit("Shared: Yes")>> >> ELSE <<>>))

NoParents == [present |-> FALSE, items |-> <<>>]
Parents_dropped(id) == [present |-> FALSE, items |-> <<>>]
Parents(id) == [present |-> TRUE, items |-> <<id>>]

\* createFolder, up to the await of drive.files.create
createFolder(folderName0, parentFolderId0) ==
  LET folderName == Default(folderName0, Str(<<>>))
      parentFolderId == Default(parentFolderId0, Str(<<>>))
      validFolderName == validateRequired(folderName, "folderName")
      client == getDriveClient
  IN IF ~validFolderName.ok THEN Return(formatError(validFolderName.error))
     ELSE IF ~client.ok THEN Return(formatError(client.error))
     ELSE IF Truthy(parentFolderId) /\ ~IsString(parentFolderId)
     THEN Return(formatError(Error(<<"parentFolderId.trim is not a function">>)))
     ELSE Await("createFolder:create",
                [api |-> "files.create",
                 fields |-> "id, name, webViewLink",
                 requestBody |->
                   [name |-> validFolderName.value,
                    mimeType |-> Str(FolderMime),
                    parents |-> IF Truthy(parentFolderId)
                                   /\ Trim(parentFolderId.s) # <<>>
                                THEN Parents(Str(Trim(parentFolderId.s)))
                                ELSE NoParents],
                 media |-> [mimeType |-> Undef, present |-> FALSE,
                            body |-> Undef]],
                [handler |-> "createFolder"])

\* createFolder, from the completion of drive.files.create
createFolder_created(r) ==
  IF ~r.ok THEN Return(formatError(r.error))
  ELSE LET folder == r.data
       IN Return(<< <<Lit("[ok] Folder created successfully:")>>,
                    <<Lit("Name: "), folder.name>>,
                    <<Lit("ID: "), folder.id>>,
                    <<Lit("Link: "), Or(folder.webViewLink, Lit("N/A"))>> >>)

\* uploadFile, up to the await of drive.files.create
uploadFile(fileName0, content0, mimeType0, folderId0) ==
  LET fileName == Default(fileName0, Str(<<>>))
      content == Default(content0, Str(<<>>))
      mimeType == Default(mimeType0, Lit("text/plain"))
      folderId == Default(folderId0, Str(<<>>))
      validFileName == validateRequired(fileName, "fileName")
      validContent == validateRequired(content, "content")
      client == getDriveClient
  IN IF ~validFileName.ok THEN Return(formatError(validFileName.error))
     ELSE IF ~validContent.ok THEN Return(formatError(validContent.error))
     ELSE IF ~client.ok THEN Return(formatError(client.error))
     ELSE IF Truthy(folderId) /\ ~IsString(folderId)
     THEN Return(formatError(Error(<<"folderId.trim is not a function">>)))
     ELSE Await("uploadFile:create",
                [api |-> "files.create",
                 fields |-> "id, name, webViewLink, size",
                 requestBody |->
                   [name |-> validFileName.value,
                    mimeType |-> Undef,
                    parents |-> IF Truthy(folderId) /\ Trim(folderId.s) # <<>>
                                THEN Parents(Str(Trim(folderId.s)))
                                ELSE NoParents],
                 media |-> [mimeType |-> Or(mimeType, Lit("text/plain")),
                            present |-> TRUE,
                            body |-> validContent.value]],
                [handler |-> "uploadFile"])

uploadFile_created_noId(r) ==
  IF ~r.ok THEN Return(formatError(r.error))
  ELSE LET file == r.data
       IN Return(<< <<Lit("[ok] File uploaded successfully:")>>,
                    <<Lit("Name: "), file.name>>,
                    <<Lit("Size: "), formatFileSize(file.size)>>,
                    <<Lit("Link: "), Or(file.webViewLink, Lit("N/A"))>> >>)

\* uploadFile, from the completion of drive.files.create
uploadFile_created(r) ==
  IF ~r.ok THEN Return(formatError(r.error))
  ELSE LET file == r.data
       IN Return(<< <<Lit("[ok] File uploaded successfully:")>>,
                    <<Lit("Name: "), file.name>>,
                    <<Lit("ID: "), file.id>>,
                    <<Lit("Size: "), formatFileSize(file.size)>>,
                    <<Lit("Link: "), Or(file.webViewLink, Lit("N/A"))>> >>)

DocumentMime == <<"application/vnd.google-apps.", "document">>
SpreadsheetMime == <<"application/vnd.google-apps.", "spreadsheet">>
PresentationMime == <<"application/vnd.google-apps.", "presentation">>

\* downloadFile, up to the await of the metadata drive.files.get
downloadFile(fileId0) ==
  LET fileId == Default(fileId0, Str(<<>>))
      validFileId == validateRequired(fileId, "fileId")
      client == getDriveClient
  IN IF ~validFileId.ok THEN Return(formatError(validFileId.error))
     ELSE IF ~client.ok THEN Return(formatError(client.error))
     ELSE Await("downloadFile:meta",
                [api |-> "files.get", fileId |-> validFileId.value,
                 fields |-> "name, mimeType, size", alt |-> "json"],
                [handler |-> "downloadFile", validFileId |-> validFileId.value])

\* (an export that always asks for plain text)
ExportMimeType_plain(mimeType) == Lit("text/plain")

\* the export target chosen for a workspace type
ExportMimeType(mimeType) ==
  IF mimeType = Str(DocumentMime) THEN Lit("text/plain")
  ELSE IF mimeType = Str(SpreadsheetMime) THEN Lit("text/csv")
  ELSE IF mimeType = Str(PresentationMime) THEN Lit("text/plain")
  ELSE Lit("text/plain")

\* (a test that knows the three document types only)
IsWorkspaceType_exact(mimeType) ==
  mimeType \in {Str(DocumentMime), Str(SpreadsheetMime), Str(PresentationMime)}

\* mimeType?.startsWith("application/vnd.google-apps.")
IsWorkspaceType(mimeType) ==
  IsString(mimeType) /\ StartsWith(mimeType.s, GoogleAppsPrefix)

\* downloadFile, from the completion of the metadata get to the next await
downloadFile_meta(fr, r) ==
  IF ~r.ok THEN Return(formatError(r.error))
  ELSE LET mimeType == r.data.mimeType
           fr2 == [handler |-> "downloadFile", validFileId |-> fr.validFileId,
                   metaResponse |-> r.data]
       IN IF IsWorkspaceType(mimeType)
          THEN Await("downloadFile:export",
                     [api |-> "files.export", mimeType |-> ExportMimeType(mimeType),
                      fileId |-> fr.validFileId],
                     fr2)
          ELSE Await("downloadFile:media",
                     [api |-> "files.get", fileId |-> fr.validFileId,
                      fields |-> "", alt |-> "media"],
                     fr2)

\* downloadFile, from the completion of drive.files.export
downloadFile_exported(fr, r) ==
  IF ~r.ok THEN Return(formatError(r.error))
  ELSE Return(<< <<Lit("[download] File: "), fr.metaResponse.name>>,
                 <<Lit("Type: "), fr.metaResponse.mimeType>>,
                 <<Lit("Content:")>>, <<>>, <<r.data>> >>)

\* downloadFile, from the completion of the alt=media drive.files.get
downloadFile_downloaded(fr, r) ==
  IF ~r.ok THEN Return(formatError(r.error))
  ELSE Return(<< <<Lit("[download] File: "), fr.metaResponse.name>>,
                 <<Lit("Type: "), fr.metaResponse.mimeType>>,
                 <<Lit("Size: "), formatFileSize(fr.metaResponse.size)>>,
                 <<Lit("Content:")>>, <<>>, <<r.data>> >>)

validRoles == {Lit("reader"), Lit("writer"), Lit("commenter")}

\* (a role passed through unvalidated)
ValidRole_passthrough(role) == role

\* the role shareFile applies
ValidRole(role) == IF role \in validRoles THEN role ELSE Lit("reader")

\* shareFile, up to the await of drive.permissions.create
shareFile(fileId0, email0, role0) ==
  LET fileId == Default(fileId0, Str(<<>>))
      email == Default(email0, Str(<<>>))
      role == Default(role0, Lit("reader"))
      validFileId == validateRequired(fileId, "fileId")
      validEmail == validateRequired(email, "email")
      client == getDriveClient
      validRole == ValidRole(role)
  IN IF ~validFileId.ok THEN Return(formatError(validFileId.error))
     ELSE IF ~validEmail.ok THEN Return(formatError(validEmail.error))
     ELSE IF ~client.ok THEN Return(formatError(client.error))
     ELSE Await("shareFile:create",
                [api |-> "permissions.create", fileId |-> validFileId.value,
                 fields |-> "id",
                 requestBody |-> [emailAddress |-> validEmail.value,
                                  role |-> validRole, type |-> "user"]],
                [handler |-> "shareFile", validFileId |-> validFileId.value,
                 validEmail |-> validEmail.value, validRole |-> validRole])

\* (a variant that fetches the file information whatever the outcome)
shareFile_created_regardless(fr, r) ==
  Await("shareFile:get",
        [api |-> "files.get", fileId |-> fr.validFileId,
         fields |-> "name, webViewLink", alt |-> "json"],
        fr)

\* shareFile, from the completion of permissions.create to the next await
shareFile_created(fr, r) ==
  IF ~r.ok THEN Return(formatError(r.error))
  ELSE Await("shareFile:get",
             [api |-> "files.get", fileId |-> fr.validFileId,
              fields |-> "name, webViewLink", alt |-> "json"],
             fr)

\* (a variant that reports the share as done when only the re-fetch failed)
shareFile_got_lenient(fr, r) ==
  Return(<< <<Lit("[ok] File shared successfully:")>>,
            <<Lit("File: "), IF r.ok THEN r.data.name ELSE Lit("N/A")>>,
            <<Lit("Shared with: "), fr.validEmail>>,
            <<Lit("Permission: "), fr.validRole>>,
            <<Lit("Link: "),
              IF r.ok THEN Or(r.data.webViewLink, Lit("N/A")) ELSE Lit("N/A")>> >>)

\* shareFile, from the completion of drive.files.get
shareFile_got(fr, r) ==
  IF ~r.ok THEN Return(formatError(r.error))
  ELSE Return(<< <<Lit("[ok] File shared successfully:")>>,
                 <<Lit("File: "), r.data.name>>,
                 <<Lit("Shared with: "), fr.validEmail>>,
                 <<Lit("Permission: "), fr.validRole>>,
                 <<Lit("Link: "), Or(r.data.webViewLink, Lit("N/A"))>> >>)

\* (a delete that trashes the item without fetching its name first)
deleteFile_updateFirst(fileId0) ==
  LET fileId == Default(fileId0, Str(<<>>))
      validFileId == validateRequired(fileId, "fileId")
      client == getDriveClient
  IN IF ~validFileId.ok THEN Return(formatError(validFileId.error))
     ELSE IF ~client.ok THEN Return(formatError(client.error))
     ELSE Await("deleteFile:update",
                [api |-> "files.update", fileId |-> validFileId.value,
                 requestBody |-> [trashed |-> TRUE]],
                [handler |-> "deleteFile", validFileId |-> validFileId.value,
                 fileInfo |-> [name |-> Undef]])

\* deleteFile, up to the await of drive.files.get
deleteFile(fileId0) ==
  LET fileId == Default(fileId0, Str(<<>>))
      validFileId == validateRequired(fileId, "fileId")
      client == getDriveClient
  IN IF ~validFileId.ok THEN Return(formatError(validFileId.error))
     ELSE IF ~client.ok THEN Return(formatError(client.error))
     ELSE Await("deleteFile:get",
                [api |-> "files.get", fileId |-> validFileId.value,
                 fields |-> "name", alt |-> "json"],
                [handler |-> "deleteFile", validFileId |-> validFileId.value])

\* (a delete that erases the item instead of trashing it)
deleteFile_got_permanent(fr, r) ==
  IF ~r.ok THEN Return(formatError(r.error))
  ELSE Await("deleteFile:update",
             [api |-> "files.delete", fileId |-> fr.validFileId,
              requestBody |-> [trashed |-> FALSE]],
             [handler |-> "deleteFile", validFileId |-> fr.validFileId,
              fileInfo |-> r.data])

\* deleteFile, from the completion of drive.files.get to the next await
deleteFile_got(fr, r) ==
  IF ~r.ok THEN Return(formatError(r.error))
  ELSE Await("deleteFile:update",
             [api |-> "files.update", fileId |-> fr.validFileId,
              requestBody |-> [trashed |-> TRUE]],
             [handler |-> "deleteFile", validFileId |-> fr.validFileId,
              fileInfo |-> r.data])

\* deleteFile, from the completion of drive.files.update
deleteFile_updated(fr, r) ==
  IF ~r.ok THEN Return(formatError(r.error))
  ELSE Return(<< <<Lit("[ok] File moved to trash:")>>,
                 <<Lit("Name: "), fr.fileInfo.name>>,
                 <<Lit("ID: "), fr.validFileId>> >>)

\* ------------------------------------------------------------------------
\* The registry
\* ------------------------------------------------------------------------
TOOLS == <<
  [name |-> "list_files", properties |-> <<"folderId", "pageSize">>,
   required |-> <<>>],
  [name |-> "search_files", properties |-> <<"query", "pageSize">>,
   required |-> <<"query">>],
  [name |-> "get_file_metadata", properties |-> <<"fileId">>,
   required |-> <<"fileId">>],
  [name |-> "create_folder", properties |-> <<"folderName", "parentFolderId">>,
   required |-> <<"folderName">>],
  [name |-> "upload_file",
   properties |-> <<"fileName", "content", "mimeType", "folderId">>,
   required |-> <<"fileName", "content">>],
  [name |-> "download_file", properties |-> <<"fileId">>,
   required |-> <<"fileId">>],
  [name |-> "share_file", properties |-> <<"fileId", "email", "role">>,
   required |-> <<"fileId", "email">>],
  [name |-> "delete_file", properties |-> <<"fileId">>,
   required |-> <<"fileId">>] >>

ToolNames == {TOOLS[i].name : i \in 1..Len(TOOLS)}

\* ------------------------------------------------------------------------
\* The remote Drive service: what a call can answer
\* ------------------------------------------------------------------------
MaxFiles == 2

RemoteOk(data) == [error |-> Error(<<>>), ok |-> TRUE, data |-> data]
RemoteFail(e) == [error |-> e, ok |-> FALSE, data |-> Undef]

RemoteErrors == {Error(<<"Rate limit exceeded.">>)}
Failures == {RemoteFail(e) : e \in RemoteErrors}

\* the items the store holds; a call that names any other item fails
RemoteFiles == {Lit("a")}
NotFound == {RemoteFail(Error(<<"File not found.">>))}
Found(call, answers) ==
  IF call.fileId \in RemoteFiles THEN Failures \cup answers ELSE NotFound

PlainMime == <<"text/plain">>
DrawingMime == <<"application/vnd.google-apps.", "drawing">>

ListedFiles == {
  [name |-> Lit("Reports"), size |-> Undef, mimeType |-> Str(FolderMime),
   id |-> Lit("id1"), modifiedTime |-> Lit("2024-05-01T10:00:00Z"),
   webViewLink |-> Undef],
  [name |-> Lit("notes.txt"), size |-> Str(<<"1", "5", "3", "6">>),
   mimeType |-> Str(PlainMime), id |-> Lit("id2"), modifiedTime |-> Undef,
   webViewLink |-> Lit("https://drive/id2")] }

FileLists == UNION {[1..n -> ListedFiles] : n \in 0..MaxFiles}

ListResponses ==
  Failures
  \cup {RemoteOk([files |-> [present |-> FALSE, items |-> <<>>]])}
  \cup {RemoteOk([files |-> [present |-> TRUE, items |-> fs]]) : fs \in FileLists}

NoOwners == [present |-> FALSE, items |-> <<>>]

MetadataResponses(call) ==
  Found(call,
       {RemoteOk([name |-> Lit("notes.txt"), size |-> Undef,
                  mimeType |-> Str(PlainMime), id |-> call.fileId,
                  modifiedTime |-> Undef, webViewLink |-> Undef,
                  createdTime |-> Undef, owners |-> NoOwners,
                  webContentLink |-> Undef, description |-> Undef,
                  shared |-> FALSE]),
        RemoteOk([name |-> Lit("notes.txt"), size |-> Str(<<"1", "5", "3", "6">>),
                  mimeType |-> Str(PlainMime), id |-> call.fileId,
                  modifiedTime |-> Lit("2024-05-01T10:00:00Z"),
                  webViewLink |-> Lit("https://drive/view"),
                  createdTime |-> Lit("2024-04-01T09:00:00Z"),
                  owners |-> [present |-> TRUE,
                              items |-> <<[displayName |-> Undef,
                                           emailAddress |-> Lit("owner@x")]>>],
                  webContentLink |-> Lit("https://drive/content"),
                  description |-> Lit("draft"), shared |-> TRUE])})

CreateResponses(call) ==
  Failures
  \cup {RemoteOk([name |-> call.requestBody.name, size |-> z,
                  id |-> Lit("new1"), webViewLink |-> l]) :
          l \in {Undef, Lit("https://drive/new1")},
          z \in (IF call.media.present THEN {Str(<<"5">>)} ELSE {Undef})}

DownloadMetaResponses(call) ==
  Found(call,
    {RemoteOk([name |-> Lit("notes"), size |-> Undef, mimeType |-> m]) :
       m \in {Str(DocumentMime), Str(SpreadsheetMime), Str(PresentationMime),
              Str(DrawingMime), Undef}}
    \cup {RemoteOk([name |-> Lit("notes"), size |-> Str(<<"2", "0", "4", "8">>),
                    mimeType |-> Str(PlainMime)])})

ContentResponses(call) == Found(call, {RemoteOk(Lit("hello"))})

PermissionResponses(call) == Found(call, {RemoteOk([id |-> Lit("perm1")])})

FileInfoResponses(call) ==
  Found(call,
    {RemoteOk([name |-> Lit("notes"), webViewLink |-> l]) :
       l \in {Undef, Lit("https://drive/view")}})

UpdateResponses(call) == Found(call, {RemoteOk([id |-> call.fileId])})

\* the store after a call that succeeded
Applied(d, call) ==
  CASE call.api = "files.update" ->
         [d EXCEPT !.trashed = IF call.requestBody.trashed
                               THEN @ \cup {call.fileId} ELSE @ \ {call.fileId}]
    [] call.api = "files.delete" ->
         [d EXCEPT !.deleted = @ \cup {call.fileId}]
    [] call.api = "permissions.create" ->
         [d EXCEPT !.permissions =
            @ \cup {[fileId |-> call.fileId,
                     emailAddress |-> call.requestBody.emailAddress,
                     role |-> call.requestBody.role]}]
    [] OTHER -> d

AfterResponse(d, call, r) == IF r.ok THEN Applied(d, call) ELSE d

\* ------------------------------------------------------------------------
\* Requests a client can send
\* ------------------------------------------------------------------------
\* (arguments are strings, as the input schemas of TOOLS declare them;
\* Undef is an argument the request leaves out)
FileIdInputs == {Undef, Str(<<>>), Str(<<" ">>), Str(<<" ", "a", " ">>),
                 Lit("a"), Lit("b")}
TextInputs == {Undef, Str(<<>>), Str(<<" ", " ">>),
               Str(<<"x", " ", "y", " ">>), Lit("z")}
OptionalIdInputs == {Undef, Str(<<>>), Str(<<" ">>), Str(<<" ", "p">>)}
EmailInputs == {Undef, Str(<<>>), Str(<<" ">>), Str(<<"u@x", " ">>)}
RoleInputs == {Undef, Str(<<>>), Lit("reader"), Lit("writer"),
               Lit("commenter"), Lit("admin"), Lit("Writer"),
               Str(<<"writer", " ">>)}
MimeInputs == {Undef, Str(<<>>), Lit("text/csv"), Lit("text/plain")}
PageSizeInputs == {Undef, Str(<<>>), Str(<<"0">>), Str(<<"5">>),
                   Str(<<"-", "3">>), Str(<<"1", "0", "0">>),
                   Str(<<"1", "0", "1">>), Lit("abc"), Str(<<"7", "p">>),
                   Str(<<" ", "4", "2">>), Str(<<"-", "0">>),
                   Str(<<"9", "9", "9">>)}
UnknownNames == {"format_disk", "LIST_FILES"}
EnvValues == {Undef, Lit("secret")}

NoRequest == [method |-> "none"]
NoResponse == [isError |-> FALSE, content |-> <<>>, returned |-> FALSE,
               tools |-> <<>>]

\* { content: [{ type: "text", text }] }; isError is FALSE where the
\* result has no isError member
ToolResult(text) ==
  [isError |-> FALSE, content |-> <<[text |-> text, type |-> "text"]>>,
   returned |-> TRUE, tools |-> <<>>]

\* (a catch clause that drops the error flag)
ErrorResult_unflagged(error) ==
  [isError |-> FALSE,
   content |-> <<[text |-> formatError(error), type |-> "text"]>>,
   returned |-> TRUE, tools |-> <<>>]

\* the result built by the catch clause of the call-tool handler
ErrorResult(error) ==
  [isError |-> TRUE,
   content |-> <<[text |-> formatError(error), type |-> "text"]>>,
   returned |-> TRUE, tools |-> <<>>]

Init ==
  /\ env \in [{"GOOGLE_CLIENT_ID", "GOOGLE_CLIENT_SECRET",
               "GOOGLE_REFRESH_TOKEN"} -> EnvValues]
  /\ pc = "starting"
  /\ request = NoRequest
  /\ frame = NoFrame
  /\ calls = <<>>
  /\ replies = <<>>
  /\ response = NoResponse
  /\ drive = [trashed |-> {}, deleted |-> {}, permissions |-> {}]

\* the handler has run to its next await, or to its return
Step(out, prior) ==
  /\ pc' = out.at
  /\ frame' = out.frame
  /\ calls' = IF out.kind = "await" THEN Append(prior, out.call) ELSE prior
  /\ response' = IF out.kind = "return" THEN ToolResult(out.text)
                 ELSE NoResponse

\* main: warn when credentials are missing, then connect the transport;
\* a failed connect is fatal and the process exits
main ==
  /\ pc = "starting"
  /\ \E connected \in BOOLEAN : pc' = IF connected THEN "idle" ELSE "exited"
  /\ UNCHANGED <<env, request, frame, calls, replies, response, drive>>

\* (a switch that lacks the case of delete_file)
CaseLabels_sevenCases ==
  {"list_files", "search_files", "get_file_metadata", "create_folder",
   "upload_file", "download_file", "share_file"}

\* the case labels of the call-tool handler's switch
CaseLabels ==
  {"list_files", "search_files", "get_file_metadata", "create_folder",
   "upload_file", "download_file", "share_file", "delete_file"}

\* the call-tool handler takes a request and runs the handler of the matching
\* case; invoked records the handlers the switch called for this request
\* and handed the values it passed to them
Begin(name, args, handler, handed, out) ==
  /\ pc = "idle"
  /\ name \in CaseLabels
  /\ request' = [name |-> name, method |-> "tools/call", handed |-> handed,
                 arguments |-> args, invoked |-> <<handler>>]
  /\ Step(out, <<>>)
  /\ replies' = <<>>
  /\ UNCHANGED <<env, drive>>

\* the remote call the handler awaits completes with r
Resume(at, r, out) ==
  /\ pc = at
  /\ Step(out, calls)
  /\ replies' = Append(replies, r)
  /\ drive' = AfterResponse(drive, calls[Len(calls)], r)
  /\ UNCHANGED <<env, request>>

\* (a list-tools handler that serves only a configured server)
ListTools_configuredOnly ==
  /\ pc = "idle"
  /\ getDriveClient.ok
  /\ request' = [method |-> "tools/list"]
  /\ response' = [isError |-> FALSE, content |-> <<>>, returned |-> TRUE,
                  tools |-> TOOLS]
  /\ calls' = <<>>
  /\ pc' = "done"
  /\ UNCHANGED <<env, frame, replies, drive>>

\* the list-tools handler
ListTools ==
  /\ pc = "idle"
  /\ request' = [method |-> "tools/list"]
  /\ response' = [isError |-> FALSE, content |-> <<>>, returned |-> TRUE,
                  tools |-> TOOLS]
  /\ calls' = <<>>
  /\ pc' = "done"
  /\ UNCHANGED <<env, frame, replies, drive>>

\* the transport sends the result; the server waits for the next request
Deliver ==
  /\ pc = "done"
  /\ pc' = "idle"
  /\ request' = NoRequest
  /\ response' = NoResponse
  /\ calls' = <<>>
  /\ replies' = <<>>
  /\ UNCHANGED <<env, frame, drive>>

\* case "list_files"
Dispatch_list_files(args) ==
  LET folderId == Or(args.folderId, Str(<<>>))
      pageSize == Or(args.pageSize, Str(<<"1", "0">>))
  IN Begin("list_files", args, "listFiles",
           [pageSize |-> pageSize, folderId |-> folderId],
           listFiles(folderId, pageSize))

Call_list_files ==
  \E f \in OptionalIdInputs, p \in PageSizeInputs :
    Dispatch_list_files([pageSize |-> p, folderId |-> f])

\* case "search_files"
Dispatch_search_files(args) ==
  LET query == Or(args.query, Str(<<>>))
      pageSize == Or(args.pageSize, Str(<<"1", "0">>))
  IN Begin("search_files", args, "searchFiles",
           [pageSize |-> pageSize, query |-> query],
           searchFiles(query, pageSize))

Call_search_files ==
  \E q \in TextInputs, p \in PageSizeInputs :
    Dispatch_search_files([pageSize |-> p, query |-> q])

\* case "get_file_metadata"
Dispatch_get_file_metadata(args) ==
  LET fileId == Or(args.fileId, Str(<<>>))
  IN Begin("get_file_metadata", args, "getFileMetadata",
           [fileId |-> fileId], getFileMetadata(fileId))

Call_get_file_metadata ==
  \E i \in FileIdInputs : Dispatch_get_file_metadata([fileId |-> i])

\* case "create_folder"
Dispatch_create_folder(args) ==
  LET folderName == Or(args.folderName, Str(<<>>))
      parentFolderId == Or(args.parentFolderId, Str(<<>>))
  IN Begin("create_folder", args, "createFolder",
           [folderName |-> folderName, parentFolderId |-> parentFolderId],
           createFolder(folderName, parentFolderId))

Call_create_folder ==
  \E n \in TextInputs, f \in OptionalIdInputs :
    Dispatch_create_folder([folderName |-> n, parentFolderId |-> f])

\* case "upload_file"
Dispatch_upload_file(args) ==
  LET fileName == Or(args.fileName, Str(<<>>))
      content == Or(args.content, Str(<<>>))
      mimeType == Or(args.mimeType, Lit("text/plain"))
      folderId == Or(args.folderId, Str(<<>>))
  IN Begin("upload_file", args, "uploadFile",
           [mimeType |-> mimeType, folderId |-> folderId,
            fileName |-> fileName, content |-> content],
           uploadFile(fileName, content, mimeType, folderId))

Call_upload_file ==
  \E n \in TextInputs, c \in TextInputs, m \in MimeInputs,
     f \in OptionalIdInputs :
    Dispatch_upload_file([mimeType |-> m, folderId |-> f, fileName |-> n,
                          content |-> c])

\* case "download_file"
Dispatch_download_file(args) ==
  LET fileId == Or(args.fileId, Str(<<>>))
  IN Begin("download_file", args, "downloadFile",
           [fileId |-> fileId], downloadFile(fileId))

Call_download_file ==
  \E i \in FileIdInputs : Dispatch_download_file([fileId |-> i])

\* case "share_file"
Dispatch_share_file(args) ==
  LET fileId == Or(args.fileId, Str(<<>>))
      email == Or(args.email, Str(<<>>))
      role == Or(args.role, Lit("reader"))
  IN Begin("share_file", args, "shareFile",
           [fileId |-> fileId, role |-> role, email |-> email],
           shareFile(fileId, email, role))

Call_share_file ==
  \E i \in FileIdInputs, e \in EmailInputs, ro \in RoleInputs :
    Dispatch_share_file([fileId |-> i, role |-> ro, email |-> e])

\* case "delete_file"
Dispatch_delete_file(args) ==
  LET fileId == Or(args.fileId, Str(<<>>))
  IN Begin("delete_file", args, "deleteFile",
           [fileId |-> fileId], deleteFile(fileId))

Call_delete_file ==
  \E i \in FileIdInputs : Dispatch_delete_file([fileId |-> i])

\* default: throw new Error(`Unknown tool: ${name}`), caught by the handler
Call_unknown ==
  \E name \in (ToolNames \cup UnknownNames) \ CaseLabels, i \in FileIdInputs :
    /\ pc = "idle"
    /\ request' = [name |-> name, method |-> "tools/call",
                   handed |-> <<>>, arguments |-> [fileId |-> i],
                   invoked |-> <<>>]
    /\ response' = ErrorResult(Error(<<"Unknown tool: ", name>>))
    /\ calls' = <<>>
    /\ pc' = "done"
    /\ UNCHANGED <<env, frame, replies, drive>>

ListFiles_listed ==
  /\ pc = "listFiles:list"
  /\ \E r \in ListResponses : Resume("listFiles:list", r, listFiles_listed(r))

SearchFiles_listed ==
  /\ pc = "searchFiles:list"
  /\ \E r \in ListResponses :
     Resume("searchFiles:list", r, searchFiles_listed(frame, r))

GetFileMetadata_got ==
  /\ pc = "getFileMetadata:get"
  /\ \E r \in MetadataResponses(calls[Len(calls)]) :
     Resume("getFileMetadata:get", r, getFileMetadata_got(r))

CreateFolder_created ==
  /\ pc = "createFolder:create"
  /\ \E r \in CreateResponses(calls[Len(calls)]) :
     Resume("createFolder:create", r, createFolder_created(r))

UploadFile_created ==
  /\ pc = "uploadFile:create"
  /\ \E r \in CreateResponses(calls[Len(calls)]) :
     Resume("uploadFile:create", r, uploadFile_created(r))

DownloadFile_meta ==
  /\ pc = "downloadFile:meta"
  /\ \E r \in DownloadMetaResponses(calls[Len(calls)]) :
     Resume("downloadFile:meta", r, downloadFile_meta(frame, r))

DownloadFile_exported ==
  /\ pc = "downloadFile:export"
  /\ \E r \in ContentResponses(calls[Len(calls)]) :
     Resume("downloadFile:export", r, downloadFile_exported(frame, r))

DownloadFile_downloaded ==
  /\ pc = "downloadFile:media"
  /\ \E r \in ContentResponses(calls[Len(calls)]) :
     Resume("downloadFile:media", r, downloadFile_downloaded(frame, r))

ShareFile_created ==
  /\ pc = "shareFile:create"
  /\ \E r \in PermissionResponses(calls[Len(calls)]) :
     Resume("shareFile:create", r, shareFile_created(frame, r))

ShareFile_got ==
  /\ pc = "shareFile:get"
  /\ \E r \in FileInfoResponses(calls[Len(calls)]) :
     Resume("shareFile:get", r, shareFile_got(frame, r))

DeleteFile_got ==
  /\ pc = "deleteFile:get"
  /\ \E r \in FileInfoResponses(calls[Len(calls)]) :
     Resume("deleteFile:get", r, deleteFile_got(frame, r))

DeleteFile_updated ==
  /\ pc = "deleteFile:update"
  /\ \E r \in UpdateResponses(calls[Len(calls)]) :
     Resume("deleteFile:update", r, deleteFile_updated(frame, r))

Next ==
  \/ main
  \/ ListTools
  \/ Deliver
  \/ Call_list_files
  \/ Call_search_files
  \/ Call_get_file_metadata
  \/ Call_create_folder
  \/ Call_upload_file
  \/ Call_download_file
  \/ Call_share_file
  \/ Call_delete_file
  \/ Call_unknown
  \/ ListFiles_listed
  \/ SearchFiles_listed
  \/ GetFileMetadata_got
  \/ CreateFolder_created
  \/ UploadFile_created
  \/ DownloadFile_meta
  \/ DownloadFile_exported
  \/ DownloadFile_downloaded
  \/ ShareFile_created
  \/ ShareFile_got
  \/ DeleteFile_got
  \/ DeleteFile_updated

Spec == Init /\ [][Next]_vars

\* the remote call an invocation awaits completes, with a result or an error
Settle ==
  \/ ListFiles_listed
  \/ SearchFiles_listed
  \/ GetFileMetadata_got
  \/ CreateFolder_created
  \/ UploadFile_created
  \/ DownloadFile_meta
  \/ DownloadFile_exported
  \/ DownloadFile_downloaded
  \/ ShareFile_created
  \/ ShareFile_got
  \/ DeleteFile_got
  \/ DeleteFile_updated

\* an invocation is suspended at an await: exactly then Settle is enabled
AtAwait == pc \notin {"starting", "exited", "idle", "done"}

\* every remote call settles: the promise a handler awaits is resolved or
\* rejected, and the handler is resumed. This is WF_vars(Settle) written
\* out, with AtAwait for ENABLED <<Settle>>_vars.
SpecSettling == Spec /\ ([]<>(~AtAwait) \/ []<><<Settle>>_vars)

\* ------------------------------------------------------------------------
\* Properties
\* ------------------------------------------------------------------------
InCall == request.method = "tools/call"
Done == pc = "done" /\ InCall
Known == InCall /\ request.name \in ToolNames
Args == request.arguments
ResultText == response.content[1].text

ErrorText(msg) == << <<Lit(ErrorMarker), Str(msg)>> >>
IsErrorText(text) ==
  Len(text) = 1 /\ Len(text[1]) = 2 /\ text[1][1] = Lit(ErrorMarker)

\* at least one of clientId, clientSecret, refreshToken is empty
CredentialsMissing == \E k \in DOMAIN env : env[k] \in {Undef, Str(<<>>)}

\* absent, empty or whitespace-only
Blank(v) ==
  \/ v = Undef
  \/ v.t = "string" /\ \A i \in 1..Len(v.s) : v.s[i] = " "

RequiredOf(name) ==
  TOOLS[CHOOSE i \in 1..Len(TOOLS) : TOOLS[i].name = name].required

HasBlankRequired ==
  \E i \in 1..Len(RequiredOf(request.name)) :
    Blank(Args[RequiredOf(request.name)[i]])

FirstBlankRequired ==
  LET req == RequiredOf(request.name)
      i == CHOOSE k \in 1..Len(req) :
             /\ Blank(Args[req[k]])
             /\ \A j \in 1..(k - 1) : ~Blank(Args[req[j]])
  IN req[i]

AllOk == \A i \in 1..Len(replies) : replies[i].ok

\* C1: every failure raised inside one of the 8 handlers comes back from
\* the call-tool request as a formatted error text with isError = true.
C1_HandlerFailureIsFlagged ==
  (Done /\ Known /\ IsErrorText(ResultText)) => response.isError

\* C2: a call-tool request for a name outside the registry returns a normal
\* result with one text item, the formatted "Unknown tool" error, flagged
\* isError, and no remote call is issued.
C2_UnknownToolIsErrorResult ==
  (Done /\ request.name \notin ToolNames) =>
    /\ response.returned
    /\ Len(response.content) = 1
    /\ response.content[1].type = "text"
    /\ ResultText = ErrorText(<<"Unknown tool: ", request.name>>)
    /\ response.isError
    /\ calls = <<>>
    /\ replies = <<>>

C2_Witness ==
  /\ Done
  /\ request.name = "format_disk"
  /\ response.isError
  /\ ~CredentialsMissing

\* C3 as stated: with a credential missing, every invocation of the 8 tools
\* ends with the configuration error, whatever its arguments, and no remote
\* call is attempted.
C3_AlwaysConfigurationError ==
  CredentialsMissing =>
    /\ calls = <<>>
    /\ (Done /\ Known) => ResultText = ErrorText(MissingCredentialsMsg)

\* C3 amended: with a credential missing no remote call is ever attempted
\* and every invocation of the 8 tools ends with an error text: the
\* "<field> is required" error of the first blank required parameter when
\* there is one, and the configuration error otherwise.
C3_MissingCredentialsFailClosed ==
  CredentialsMissing =>
    /\ calls = <<>>
    /\ pc \in {"starting", "exited", "idle", "done"}
    /\ drive = [trashed |-> {}, deleted |-> {}, permissions |-> {}]
    /\ (Done /\ Known) =>
         ResultText = IF HasBlankRequired
                      THEN ErrorText(<<FirstBlankRequired, " is required">>)
                      ELSE ErrorText(MissingCredentialsMsg)

C3_Witness ==
  /\ CredentialsMissing
  /\ Done
  /\ request.name = "upload_file"
  /\ ~HasBlankRequired
  /\ ResultText = ErrorText(MissingCredentialsMsg)

\* C4: when a required parameter of a handler is absent, empty or
\* whitespace-only, the invocation fails with "<field> is required" and no
\* remote call is made in it.
C4_BlankRequiredFailsBeforeRemote ==
  (Known /\ HasBlankRequired) =>
    /\ pc = "done"
    /\ calls = <<>>
    /\ replies = <<>>
    /\ ResultText = ErrorText(<<FirstBlankRequired, " is required">>)

C4_Witness ==
  /\ Done
  /\ ~CredentialsMissing
  /\ request.name = "share_file"
  /\ Args.fileId = Lit("a")
  /\ Args.email = Str(<<" ">>)
  /\ ResultText = ErrorText(<<"email", " is required">>)

\* C5: deleteFile issues no mutating remote call other than an update
\* whose body sets trashed = true on the validated fileId; nothing is ever
\* permanently deleted.
C5_DeleteOnlyTrashes ==
  /\ drive.deleted = {}
  /\ (InCall /\ request.name = "delete_file") =>
       \A i \in 1..Len(calls) :
         /\ calls[i].api \in {"files.get", "files.update"}
         /\ calls[i].fileId = Str(Trim(Args.fileId.s))
         /\ calls[i].api = "files.get" => i = 1
         /\ calls[i].api = "files.update" =>
              /\ i = 2
              /\ calls[i].requestBody = [trashed |-> TRUE]

C5_Witness ==
  /\ Done
  /\ request.name = "delete_file"
  /\ Args.fileId = Str(<<" ", "a", " ">>)
  /\ Len(replies) = 2
  /\ replies[2].ok
  /\ Lit("a") \in drive.trashed

\* C6: when the metadata fetched by downloadFile reports the native
\* spreadsheet type, the next remote call is an export of that fileId to
\* text/csv and no alt=media get is issued in the invocation.
C6_SpreadsheetIsExportedAsCsv ==
  (InCall /\ request.name = "download_file" /\ Len(replies) >= 1
     /\ replies[1].ok
     /\ replies[1].data.mimeType =
          Str(<<"application/vnd.google-apps.", "spreadsheet">>)) =>
    /\ Len(calls) = 2
    /\ calls[2].api = "files.export"
    /\ calls[2].fileId = calls[1].fileId
    /\ calls[2].fileId = Str(Trim(Args.fileId.s))
    /\ calls[2].mimeType = Lit("text/csv")
    /\ \A i \in 1..Len(calls) :
         calls[i].api = "files.get" => calls[i].alt # "media"

C6_Witness ==
  /\ Done
  /\ request.name = "download_file"
  /\ Len(replies) = 2
  /\ replies[1].ok
  /\ replies[1].data.mimeType = Str(SpreadsheetMime)
  /\ replies[2].ok
  /\ calls[2].mimeType = Lit("text/csv")

HasSizeLine(text) ==
  \E i \in 1..Len(text) : Len(text[i]) = 2 /\ text[i][1] = Lit("Size: ")

\* C7: after downloadFile's metadata fetch exactly one content call
\* follows: an export when the type is a native workspace type (to plain
\* text for documents and presentations, to CSV for spreadsheets), a raw
\* download otherwise; the size line is rendered for the raw download only.
C7_OneContentCallPerType ==
  (InCall /\ request.name = "download_file" /\ Len(replies) >= 1
     /\ replies[1].ok) =>
    LET m == replies[1].data.mimeType
        native == m.t = "string" /\ m.s # <<>>
                  /\ m.s[1] = "application/vnd.google-apps."
    IN /\ Len(calls) = 2
       /\ calls[2].fileId = calls[1].fileId
       /\ native =>
            /\ calls[2].api = "files.export"
            /\ m.s[2] \in {"document", "presentation"} =>
                 calls[2].mimeType = Lit("text/plain")
            /\ m.s[2] = "spreadsheet" => calls[2].mimeType = Lit("text/csv")
       /\ ~native => (calls[2].api = "files.get" /\ calls[2].alt = "media")
       /\ (Done /\ Len(replies) = 2 /\ replies[2].ok) =>
            /\ ~IsErrorText(ResultText)
            /\ HasSizeLine(ResultText) <=> ~native

C7_Witness ==
  /\ Done
  /\ request.name = "download_file"
  /\ Len(replies) = 2
  /\ replies[1].ok
  /\ replies[1].data.mimeType = Str(DrawingMime)
  /\ replies[2].ok
  /\ calls[2].api = "files.export"
  /\ ~HasSizeLine(ResultText)

\* C8: shareFile with valid fileId and email creates the permission with
\* the given role when it is reader, writer or commenter and with reader
\* for any other value, raises no error for the role, and renders the role
\* it sent in the create-permission call.
C8_RoleFallsBackToReader ==
  (InCall /\ request.name = "share_file" /\ ~CredentialsMissing
     /\ ~Blank(Args.fileId) /\ ~Blank(Args.email)) =>
    /\ Len(calls) >= 1
    /\ calls[1].api = "permissions.create"
    /\ calls[1].requestBody.role =
         IF Args.role \in {Lit("reader"), Lit("writer"), Lit("commenter")}
         THEN Args.role ELSE Lit("reader")
    /\ (Done /\ IsErrorText(ResultText)) =>
         \E i \in 1..Len(replies) : ~replies[i].ok
    /\ (Done /\ Len(replies) = 2 /\ AllOk) =>
         /\ Len(ResultText) = 5
         /\ ResultText[4] = <<Lit("Permission: "), calls[1].requestBody.role>>

C8_Witness ==
  /\ Done
  /\ request.name = "share_file"
  /\ Args.role = Lit("admin")
  /\ Len(replies) = 2
  /\ AllOk
  /\ ResultText[4] = <<Lit("Permission: "), Lit("reader")>>
  /\ [fileId |-> Lit("a"), emailAddress |-> Lit("u@x"), role |-> Lit("reader")]
       \in drive.permissions

\* the pageSize string the dispatcher hands to the handler
PassedPageSize == Or(Args.pageSize, Str(<<"1", "0">>))

Clamp(k) == IF k < 1 THEN 1 ELSE IF k > 100 THEN 100 ELSE k

\* C9: for every pageSize passed to listFiles or searchFiles the pageSize
\* of the remote list call is an integer in [1,100], equal to the parsed
\* value clamped to that range.
C9_PageSizeIsParsedValueClamped ==
  (InCall /\ request.name \in {"list_files", "search_files"}
     /\ Len(calls) >= 1) =>
    LET parsed == parseInt(PassedPageSize)
    IN /\ calls[1].pageSize \in 1..100
       /\ ~IsNaN(parsed) => calls[1].pageSize = Clamp(parsed.n)

IsNumbered(line) ==
  Len(line) = 5 /\ line[1].t = "number" /\ line[2] = Lit(". ")

NumberedLines(text) == SelectSeq(text, IsNumbered)

\* C10: the text of listFiles has one numbered entry per file the remote
\* list call returned, numbered 1..n in the order returned; with no files
\* (or no files field) it is the single "no files found" line.
C10_ListingNumbersEveryFile ==
  (Done /\ request.name = "list_files" /\ Len(replies) = 1 /\ AllOk) =>
    LET files == replies[1].data.files
        n == IF files.present THEN Len(files.items) ELSE 0
        entries == NumberedLines(ResultText)
    IN IF n = 0
       THEN ResultText = << <<Lit("[folder] No files found")>> >>
       ELSE /\ Len(entries) = n
            /\ \A i \in 1..n :
                 /\ entries[i][1] = Num(i)
                 /\ entries[i][5] = files.items[i].name
            /\ \A i \in 1..Len(ResultText) :
                 ResultText[i] # <<Lit("[folder] No files found")>>

C10_Witness ==
  /\ Done
  /\ request.name = "list_files"
  /\ Len(replies) = 1
  /\ AllOk
  /\ replies[1].data.files.present
  /\ Len(replies[1].data.files.items) = 2
  /\ replies[1].data.files.items[1].name = Lit("notes.txt")
  /\ replies[1].data.files.items[2].name = Lit("Reports")
  /\ Len(NumberedLines(ResultText)) = 2

\* the tokens of s from its first to its last non-whitespace token
NonBlankAt(s) == {i \in 1..Len(s) : s[i] # " "}
Stripped(s) ==
  IF NonBlankAt(s) = {} THEN <<>>
  ELSE SubSeq(s, CHOOSE i \in NonBlankAt(s) : \A j \in NonBlankAt(s) : i <= j,
                 CHOOSE i \in NonBlankAt(s) : \A j \in NonBlankAt(s) : i >= j)

\* the value v is one of the pieces of the text
Contains(text, v) ==
  \E i \in 1..Len(text) : \E j \in 1..Len(text[i]) : text[i][j] = v

\* C11: with credentials configured, createFolder with a folderName that is
\* not blank issues exactly one remote call, a create whose metadata has the
\* folder type identifier and the trimmed folderName; its parents field is
\* absent when parentFolderId is absent, empty or whitespace-only and is the
\* one-element list of the trimmed parentFolderId otherwise; the success
\* text contains the name and the id the remote returned.
C11_CreateFolderIssuesOneCreate ==
  (InCall /\ request.name = "create_folder" /\ ~Blank(Args.folderName)
     /\ ~CredentialsMissing) =>
    /\ Len(calls) = 1
    /\ calls[1].api = "files.create"
    /\ ~calls[1].media.present
    /\ calls[1].requestBody.mimeType =
         Str(<<"application/vnd.google-apps.", "folder">>)
    /\ calls[1].requestBody.name = Str(Stripped(Args.folderName.s))
    /\ calls[1].requestBody.parents =
         IF Blank(Args.parentFolderId)
         THEN [present |-> FALSE, items |-> <<>>]
         ELSE [present |-> TRUE,
               items |-> <<Str(Stripped(Args.parentFolderId.s))>>]
    /\ (pc = "done" /\ AllOk) =>
         /\ Len(replies) = 1
         /\ Contains(ResultText, replies[1].data.name)
         /\ Contains(ResultText, replies[1].data.id)

C11_Witness ==
  /\ Done
  /\ request.name = "create_folder"
  /\ Args.folderName = Str(<<"x", " ", "y", " ">>)
  /\ Args.parentFolderId = Str(<<" ", "p">>)
  /\ Len(calls) = 1
  /\ calls[1].requestBody.name = Str(<<"x", " ", "y">>)
  /\ calls[1].requestBody.parents.items = <<Lit("p")>>
  /\ Len(replies) = 1
  /\ replies[1].ok
  /\ Contains(ResultText, Lit("new1"))

\* the invocation has returned after every remote call it issued succeeded
Succeeded == Done /\ Known /\ replies # <<>> /\ AllOk

\* the items the remote answered about: the id and the name it passed back;
\* where its answers carry no id of the item (downloadFile, shareFile) the
\* id is the one of the item the answered call named
ReturnedItems ==
  CASE request.name \in {"list_files", "search_files"} ->
         LET files == replies[1].data.files
         IN IF files.present
            THEN {[name |-> files.items[i].name, id |-> files.items[i].id] :
                    i \in 1..Len(files.items)}
            ELSE {}
    [] request.name \in {"get_file_metadata", "create_folder", "upload_file"} ->
         {[name |-> replies[1].data.name, id |-> replies[1].data.id]}
    [] request.name = "download_file" ->
         {[name |-> replies[1].data.name, id |-> calls[1].fileId]}
    [] request.name = "share_file" ->
         {[name |-> replies[2].data.name, id |-> calls[2].fileId]}
    [] request.name = "delete_file" ->
         {[name |-> replies[1].data.name, id |-> replies[2].data.id]}

MaxWidth == 6

LowDigits(k) ==
  {[i \in 1..k |-> 0], [i \in 1..k |-> 1023],
   [i \in 1..k |-> IF i = 1 THEN 1 ELSE 0]}

\* byte counts on both sides of every power of 1024, lowest digit first
ByteCounts ==
  {<<>>, <<512, 1>>}
  \cup {low \o <<top>> : low \in UNION {LowDigits(k) : k \in 0..(MaxWidth - 1)},
                         top \in {1, 2, 512, 1023}}

SizeRequests ==
  {[bytes |-> Str(WideToks(b)), kind |-> "count", method |-> "formatFileSize",
    count |-> b] : b \in ByteCounts}
  \cup {[bytes |-> Str(<<" ", "0", "4", "2">>), kind |-> "count",
         method |-> "formatFileSize", count |-> <<42>>]}
  \cup {[bytes |-> v, kind |-> "unparseable", method |-> "formatFileSize",
         count |-> <<>>] :
          v \in {Undef, Str(<<>>), Str(<<" ">>), Lit("abc"),
                 Str(<<"k", "1", "2">>), Str(<<"-">>)}}
  \cup {[bytes |-> v, kind |-> "other", method |-> "formatFileSize",
         count |-> <<>>] :
          v \in {Str(<<"-", "5">>), Str(<<"1", "2", "k">>), Str(<<"-", "0">>)}}

SizeInit ==
  /\ env \in [{"GOOGLE_CLIENT_ID", "GOOGLE_CLIENT_SECRET",
               "GOOGLE_REFRESH_TOKEN"} -> {Lit("secret")}]
  /\ pc = "idle"
  /\ request \in SizeRequests
  /\ frame = NoFrame
  /\ calls = <<>>
  /\ replies = <<>>
  /\ response = NoResponse
  /\ drive = [trashed |-> {}, deleted |-> {}, permissions |-> {}]

FormatFileSize ==
  /\ pc = "idle"
  /\ request.method = "formatFileSize"
  /\ response' = [NoResponse EXCEPT !.returned = TRUE,
                                    !.content = <<formatFileSize(request.bytes)>>]
  /\ pc' = "done"
  /\ UNCHANGED <<env, request, frame, calls, replies, drive>>

SpecSize == SizeInit /\ [][FormatFileSize]_vars

Formatted == request.method = "formatFileSize" /\ pc = "done"

\* C13: for a byte count b >= 0 given as a string, the unit formatFileSize
\* prints is the one of index k, the smallest k in 0..4 (B, KB, MB, GB, TB)
\* with b / 1024^k < 1024, and TB when there is none; an absent or
\* unparseable input gives "N/A", and "0" gives a value in B, not "N/A".
C13_UnitIsSmallestBelow1024 ==
  Formatted =>
    LET out == response.content[1]
        b == request.count
        \* b / 1024^k < 1024: b has at most k + 1 digits in base 1024
        fitting == {k \in 0..4 : Len(b) <= k + 1}
        unit == IF fitting = {} THEN 4
                ELSE CHOOSE k \in fitting : \A j \in fitting : k <= j
    IN /\ request.kind = "count" =>
            /\ out # Lit("N/A")
            /\ out.s[Len(out.s)] = <<"B", "KB", "MB", "GB", "TB">>[unit + 1]
            /\ out.s[Len(out.s) - 1] = " "
       /\ request.kind = "unparseable" => out = Lit("N/A")
       /\ request.bytes = Lit("0") => out = Str(<<"0", ".", "0", "0", " ", "B">>)

C13_Witness ==
  /\ Formatted
  /\ request.count = <<1023, 1023, 1023, 1023, 1023, 1>>
  /\ request.bytes = Str(<<"2", "2", "5", "1", "7", "9", "9", "8", "1", "3",
                           "6", "8", "5", "2", "4", "7">>)
  /\ response.content[1] = Str(<<"2", "0", "4", "8", ".", "0", "0", " ", "TB">>)

\* ------------------------------------------------------------------------
\* validateRequired on its own: every string of up to MaxLen tokens
\* ------------------------------------------------------------------------
MaxLen == 4

ValueInputs ==
  {Undef} \cup {Str(s) : s \in UNION {[1..n -> {" ", "a", "b"}] : n \in 0..MaxLen}}

ValidateInit ==
  /\ env \in [{"GOOGLE_CLIENT_ID", "GOOGLE_CLIENT_SECRET",
               "GOOGLE_REFRESH_TOKEN"} -> {Lit("secret")}]
  /\ pc = "idle"
  /\ request \in {[value |-> v, name |-> n, method |-> "validateRequired"] :
                    v \in ValueInputs, n \in {"fileId", "query"}}
  /\ frame = NoFrame
  /\ calls = <<>>
  /\ replies = <<>>
  /\ response = NoResponse
  /\ drive = [trashed |-> {}, deleted |-> {}, permissions |-> {}]

ValidateRequired ==
  /\ pc = "idle"
  /\ request.method = "validateRequired"
  /\ response' =
       [NoResponse EXCEPT !.returned = TRUE,
          !.content = <<validateRequired(request.value, request.name)>>]
  /\ pc' = "validated"
  /\ UNCHANGED <<env, request, frame, calls, replies, drive>>

\* the value validateRequired returned is validated again
ValidateAgain ==
  /\ pc = "validated"
  /\ response.content[1].ok
  /\ response' =
       [response EXCEPT
          !.content = Append(@, validateRequired(response.content[1].value,
                                                 request.name))]
  /\ pc' = "done"
  /\ UNCHANGED <<env, request, frame, calls, replies, drive>>

SpecValidate == ValidateInit /\ [][ValidateRequired \/ ValidateAgain]_vars

Validated == request.method = "validateRequired" /\ pc \in {"validated", "done"}

\* C14: validateRequired(value, name) fails with the message
\* "<name> is required" for every value that is absent, empty or only
\* whitespace; for every other value it returns the value without its
\* leading and trailing whitespace, which is not empty, and validating that
\* result again returns it unchanged.
C14_ValidateRequiredTrimsOrFails ==
  Validated =>
    LET v == request.value
        r == response.content[1]
    IN IF Blank(v)
       THEN /\ ~r.ok
            /\ r.error.message = <<request.name, " is required">>
            /\ pc = "validated"
       ELSE /\ r.ok
            /\ r.value = Str(Stripped(v.s))
            /\ r.value.s # <<>>
            /\ r.value.s[1] # " " /\ r.value.s[Len(r.value.s)] # " "
            /\ pc = "done" =>
                 /\ response.content[2].ok
                 /\ response.content[2].value = r.value

C14_Witness ==
  /\ Validated
  /\ pc = "done"
  /\ request.value = Str(<<" ", "a", " ", "b">>)
  /\ response.content[1].value = Str(<<"a", " ", "b">>)
  /\ response.content[2].value = Str(<<"a", " ", "b">>)

\* C15: the registry has 8 entries with pairwise distinct names, the names
\* it advertises are exactly the names the dispatcher matches, and every
\* call-tool request with a registered name invokes exactly one handler,
\* exactly once, and returns its text as a single text-content item.
C15_RegistryMatchesDispatcher ==
  /\ Len(TOOLS) = 8
  /\ \A i, j \in 1..Len(TOOLS) : TOOLS[i].name = TOOLS[j].name => i = j
  /\ {TOOLS[i].name : i \in 1..Len(TOOLS)} = CaseLabels
  /\ Known =>
       /\ Len(request.invoked) = 1
       /\ request.invoked[1] =
            CASE request.name = "list_files" -> "listFiles"
              [] request.name = "search_files" -> "searchFiles"
              [] request.name = "get_file_metadata" -> "getFileMetadata"
              [] request.name = "create_folder" -> "createFolder"
              [] request.name = "upload_file" -> "uploadFile"
              [] request.name = "download_file" -> "downloadFile"
              [] request.name = "share_file" -> "shareFile"
              [] request.name = "delete_file" -> "deleteFile"
       /\ pc # "done" => frame.handler = request.invoked[1]
  /\ (Done /\ Known) =>
       /\ response.returned
       /\ ~response.isError
       /\ Len(response.content) = 1
       /\ response.content[1].type = "text"
       /\ response.content[1].text # <<>>

C15_Witness ==
  /\ Done
  /\ request.name = "share_file"
  /\ request.invoked = <<"shareFile">>
  /\ Len(calls) = 2
  /\ AllOk
  /\ Len(response.content) = 1
  /\ response.content[1].type = "text"

\* the handler of a registered tool has returned a text to the dispatcher:
\* the result is the unflagged single text item, and when the invocation
\* failed (a blank required argument, a missing credential, a remote call
\* that failed) the text is the marker followed by that error's message
ReturnedText ==
  (Done /\ Known) =>
    /\ response.returned
    /\ ~response.isError
    /\ Len(response.content) = 1
    /\ ResultText # <<>>
    /\ ResultText =
         IF HasBlankRequired
         THEN << <<Lit("(x) Error: "), Str(<<FirstBlankRequired, " is required">>)>> >>
         ELSE IF CredentialsMissing
         THEN << <<Lit("(x) Error: "), Str(MissingCredentialsMsg)>> >>
         ELSE IF ~AllOk
         THEN << <<Lit("(x) Error: "), Str(replies[Len(replies)].error.message)>> >>
         ELSE ResultText
    /\ (~HasBlankRequired /\ ~CredentialsMissing /\ AllOk) =>
         ~IsErrorText(ResultText)

\* an invocation in flight is suspended at a remote call that has not settled
AwaitingRemote ==
  (Known /\ pc # "done") => Len(calls) = Len(replies) + 1

\* C16: every handler, for every argument mapping and every remote outcome,
\* completes by returning a text and never throws to its caller; on failure
\* the text is the error marker followed by the error's message.
C16_HandlersAlwaysReturnText ==
  /\ [](ReturnedText /\ AwaitingRemote)
  /\ Known ~> Done

C16_Witness ==
  /\ Done
  /\ request.name = "download_file"
  /\ Len(replies) = 2
  /\ replies[1].ok
  /\ ~replies[2].ok
  /\ ResultText = << <<Lit("(x) Error: "), Str(<<"Rate limit exceeded.">>)>> >>
  /\ ~response.isError

\* C17: in every state of the running server, with or without credentials
\* and after any sequence of invocations, a list-tools request can be
\* served and returns the same unmodified registry of 8 entries; missing
\* credentials do not keep main from connecting the transport.
C17_ListToolsAlwaysReturnsRegistry ==
  /\ pc = "starting" => ENABLED main
  /\ pc = "idle" => ENABLED ListTools
  /\ (request.method = "tools/list" /\ pc = "done") =>
       /\ response.returned
       /\ ~response.isError
       /\ response.tools = TOOLS
       /\ [i \in 1..Len(response.tools) |-> response.tools[i].name] =
            <<"list_files", "search_files", "get_file_metadata",
              "create_folder", "upload_file", "download_file", "share_file",
              "delete_file">>
       /\ calls = <<>>

C17_Witness ==
  /\ CredentialsMissing
  /\ request.method = "tools/list"
  /\ pc = "done"
  /\ Len(response.tools) = 8
  /\ response.tools = TOOLS

\* C18: within one invocation the first remote call that fails ends the
\* invocation: no remote call is repeated, no remote call is issued after a
\* failure, and an invocation issues at most 3 remote calls.
C18_FirstFailureEndsInvocation ==
  InCall =>
    /\ Len(calls) <= 3
    /\ Len(replies) <= Len(calls)
    /\ \A i \in 1..Len(replies) :
         ~replies[i].ok =>
           /\ i = Len(replies)
           /\ Len(calls) = i
           /\ pc = "done"
           /\ IsErrorText(ResultText)
    /\ \A i, j \in 1..Len(calls) : calls[i] = calls[j] => i = j

C18_Witness ==
  /\ Done
  /\ request.name = "share_file"
  /\ Len(calls) = 1
  /\ calls[1].api = "permissions.create"
  /\ Len(replies) = 1
  /\ ~replies[1].ok
  /\ drive.permissions = {}

\* C19: uploadFile with a fileName and a content that are not blank issues
\* exactly one create call, whose name is the given fileName and whose
\* parents is [folderId] if folderId is given and absent otherwise (both
\* compared without their surrounding whitespace), and whose body is the
\* content argument as the caller supplied it, with the stated mimeType
\* (text/plain when mimeType is absent or empty); with a blank fileName or
\* content no create call is issued.
C19_UploadSendsSuppliedContent ==
  (InCall /\ request.name = "upload_file" /\ ~CredentialsMissing) =>
    IF Blank(Args.fileName) \/ Blank(Args.content)
    THEN calls = <<>>
    ELSE /\ Len(calls) = 1
         /\ calls[1].api = "files.create"
         /\ calls[1].requestBody.name = Str(Stripped(Args.fileName.s))
         /\ calls[1].requestBody.parents =
              IF Blank(Args.folderId)
              THEN [present |-> FALSE, items |-> <<>>]
              ELSE [present |-> TRUE,
                    items |-> <<Str(Stripped(Args.folderId.s))>>]
         /\ calls[1].media.present
         /\ calls[1].media.mimeType =
              IF Args.mimeType \in {Undef, Str(<<>>)}
              THEN Str(<<"text/plain">>) ELSE Args.mimeType
         /\ calls[1].media.body = Args.content

\* C20: every list call issued by listFiles carries the not-trashed
\* condition and orders by modification time, descending; it carries the
\* parent-containment condition, for the trimmed folderId, exactly when
\* folderId is non-empty after trimming.
C20_ListQueryIsNotTrashedInFolder ==
  (InCall /\ request.name = "list_files") =>
    /\ ~CredentialsMissing => Len(calls) = 1
    /\ \A i \in 1..Len(calls) :
         /\ calls[i].api = "files.list"
         /\ calls[i].orderBy = "modifiedTime desc"
         /\ calls[i].q.s[1] = "trashed = false"
         /\ calls[i].q =
              IF Blank(Args.folderId)
              THEN Str(<<"trashed = false">>)
              ELSE Str(<<"trashed = false", " and '">>
                       \o Stripped(Args.folderId.s) \o <<"' in parents">>)

C20_Witness ==
  /\ InCall
  /\ request.name = "list_files"
  /\ Args.folderId = Str(<<" ", "p">>)
  /\ Len(calls) = 1
  /\ calls[1].q = Str(<<"trashed = false", " and '", "p", "' in parents">>)
  /\ calls[1].orderBy = "modifiedTime desc"

\* ------------------------------------------------------------------------
\* Requests whose arguments are not all strings: the SDK hands the handler
\* the arguments as the client sent them, whatever the input schema says
\* ------------------------------------------------------------------------
UntypedInputs == {Undef, Num(0), Num(7), Lit("a")}

CallUntyped_list_files ==
  \E f \in UntypedInputs, p \in UntypedInputs :
    Dispatch_list_files([pageSize |-> p, folderId |-> f])

CallUntyped_search_files ==
  \E q \in UntypedInputs, p \in UntypedInputs :
    Dispatch_search_files([pageSize |-> p, query |-> q])

CallUntyped_get_file_metadata ==
  \E i \in UntypedInputs : Dispatch_get_file_metadata([fileId |-> i])

CallUntyped_create_folder ==
  \E n \in UntypedInputs, f \in UntypedInputs :
    Dispatch_create_folder([folderName |-> n, parentFolderId |-> f])

CallUntyped_upload_file ==
  \E n \in UntypedInputs, c \in UntypedInputs, m \in UntypedInputs,
     f \in UntypedInputs :
    Dispatch_upload_file([mimeType |-> m, folderId |-> f, fileName |-> n,
                          content |-> c])

CallUntyped_download_file ==
  \E i \in UntypedInputs : Dispatch_download_file([fileId |-> i])

CallUntyped_share_file ==
  \E i \in UntypedInputs, e \in UntypedInputs, ro \in UntypedInputs :
    Dispatch_share_file([fileId |-> i, role |-> ro, email |-> e])

CallUntyped_delete_file ==
  \E i \in UntypedInputs : Dispatch_delete_file([fileId |-> i])

NextUntyped ==
  \/ main
  \/ ListTools
  \/ Deliver
  \/ CallUntyped_list_files
  \/ CallUntyped_search_files
  \/ CallUntyped_get_file_metadata
  \/ CallUntyped_create_folder
  \/ CallUntyped_upload_file
  \/ CallUntyped_download_file
  \/ CallUntyped_share_file
  \/ CallUntyped_delete_file
  \/ Call_unknown
  \/ ListFiles_listed
  \/ SearchFiles_listed
  \/ GetFileMetadata_got
  \/ CreateFolder_created
  \/ UploadFile_created
  \/ DownloadFile_meta
  \/ DownloadFile_exported
  \/ DownloadFile_downloaded
  \/ ShareFile_created
  \/ ShareFile_got
  \/ DeleteFile_got
  \/ DeleteFile_updated

SpecUntyped == Init /\ [][NextUntyped]_vars

\* the default the dispatcher documents for a parameter
DocumentedDefault(param) ==
  CASE param = "pageSize" -> Str(<<"1", "0">>)
    [] param = "mimeType" -> Str(<<"text/plain">>)
    [] param = "role" -> Str(<<"reader">>)
    [] OTHER -> Str(<<>>)

\* C21: for every call-tool request each argument handed to the handler is
\* a string: an absent argument becomes "" (or the documented default:
\* pageSize "10", mimeType "text/plain", role "reader"), and a supplied
\* argument that is not a string is converted to a string before the
\* handler runs.
C21_HandlerArgumentsAreStrings ==
  Known =>
    \A param \in DOMAIN request.handed :
      /\ request.handed[param].t = "string"
      /\ Args[param] = Undef =>
           request.handed[param] = DocumentedDefault(param)
      /\ Args[param].t = "number" =>
           request.handed[param] = Str(ToStr(Args[param]))

\* within an invocation of deleteFile: an update call is the second call,
\* issued after the get of the same fileId has succeeded; a failed get is
\* the last call; a success text means that both calls succeeded
DeleteIsOrdered ==
  (InCall /\ request.name = "delete_file") =>
    /\ \A i \in 1..Len(calls) :
         calls[i].api = "files.update" =>
           /\ i = 2
           /\ calls[1].api = "files.get"
           /\ calls[1].fileId = calls[2].fileId
           /\ Len(replies) >= 1
           /\ replies[1].ok
    /\ (Len(replies) >= 1 /\ ~replies[1].ok) =>
         /\ Len(calls) = 1
         /\ pc = "done"
         /\ IsErrorText(ResultText)
    /\ (pc = "done" /\ ~IsErrorText(ResultText)) =>
         /\ Len(calls) = 2
         /\ Len(replies) = 2
         /\ AllOk
         /\ calls[2].fileId \in drive.trashed

\* the step in which the name fetch fails leaves the remote store as it was
FailedFetchChangesNothing ==
  (pc = "deleteFile:get" /\ ~replies'[Len(replies')].ok) => drive' = drive

\* C22: in deleteFile the trash update is issued only after the name fetch
\* for the same fileId has succeeded; if the name fetch fails no update call
\* is issued and the item's trashed flag is unchanged; a success text is
\* returned only if both calls succeeded.
C22_TrashOnlyAfterNameFetch ==
  []DeleteIsOrdered /\ [][FailedFetchChangesNothing]_vars

C22_Witness ==
  /\ Done
  /\ request.name = "delete_file"
  /\ Len(calls) = 1
  /\ calls[1].api = "files.get"
  /\ calls[1].fileId = Lit("a")
  /\ Len(replies) = 1
  /\ replies[1] = RemoteFail(Error(<<"Rate limit exceeded.">>))
  /\ drive.trashed = {}
  /\ IsErrorText(ResultText)

\* the permission the first call of the invocation asked for
RequestedPermission ==
  [fileId |-> calls[1].fileId,
   emailAddress |-> calls[1].requestBody.emailAddress,
   role |-> calls[1].requestBody.role]

\* shareFile creates the permission first and fetches name and link second;
\* when the create succeeded and the get failed, the result is the error
\* text of the get and the permission exists in the remote store
ShareFailsAfterGrant ==
  (InCall /\ request.name = "share_file") =>
    /\ Len(calls) >= 1 => calls[1].api = "permissions.create"
    /\ Len(calls) >= 2 =>
         /\ calls[2].api = "files.get"
         /\ replies[1].ok
         /\ RequestedPermission \in drive.permissions
    /\ (Len(replies) = 2 /\ ~replies[2].ok) =>
         /\ pc = "done"
         /\ ResultText =
              << <<Lit("(x) Error: "), Str(replies[2].error.message)>> >>
         /\ RequestedPermission \in drive.permissions

\* no step of the server takes a permission away
PermissionsStay == drive.permissions \subseteq drive'.permissions

\* C23: shareFile creates the permission before it re-fetches name and
\* link, so it is not atomic: when the create-permission call succeeds and
\* the following get fails, the invocation returns an error text although
\* the permission has been created, and it stays created; an error text of
\* shareFile does not imply that the remote state is unchanged.
C23_ShareIsNotAtomic ==
  []ShareFailsAfterGrant /\ [][PermissionsStay]_vars

C23_Witness ==
  /\ Done
  /\ request.name = "share_file"
  /\ Len(calls) = 2
  /\ Len(replies) = 2
  /\ replies[1].ok
  /\ ~replies[2].ok
  /\ IsErrorText(ResultText)
  /\ drive.permissions =
       {[fileId |-> Lit("a"), emailAddress |-> Lit("u@x"),
         role |-> Lit("writer")]}

\* the required fields of each tool, in the order the registry declares them
DeclaredRequired ==
  [list_files |-> <<>>,
   search_files |-> <<"query">>,
   get_file_metadata |-> <<"fileId">>,
   create_folder |-> <<"folderName">>,
   upload_file |-> <<"fileName", "content">>,
   download_file |-> <<"fileId">>,
   share_file |-> <<"fileId", "email">>,
   delete_file |-> <<"fileId">>]

\* the required fields of the request that are absent, empty or blank,
\* as positions in the declaration order
BlankPositions ==
  {i \in 1..Len(DeclaredRequired[request.name]) :
     Blank(Args[DeclaredRequired[request.name][i]])}

\* C24: in every handler that has required parameters validation runs
\* before the credential check: with a required parameter empty and the
\* credentials missing as well, the error returned is "<field> is required"
\* for the first such field in declaration order, not the
\* missing-credentials error; listFiles, which validates nothing, reports
\* the credentials error for every argument mapping.
C24_ValidationPrecedesCredentials ==
  (Done /\ Known) =>
    LET required == DeclaredRequired[request.name]
        first == CHOOSE i \in BlankPositions : \A j \in BlankPositions : i <= j
        credentialsError ==
          << <<Lit("(x) Error: "),
               Str(<<"Missing Google Drive credentials. Set GOOGLE_CLIENT_ID, GOOGLE_CLIENT_SECRET, and GOOGLE_REFRESH_TOKEN">>)>> >>
    IN /\ BlankPositions # {} =>
            /\ ResultText =
                 << <<Lit("(x) Error: "), Str(<<required[first], " is required">>)>> >>
            /\ ResultText # credentialsError
            /\ calls = <<>>
       /\ (CredentialsMissing /\ BlankPositions = {}) =>
            ResultText = credentialsError
       /\ (CredentialsMissing /\ request.name = "list_files") =>
            ResultText = credentialsError

C24_Witness ==
  /\ Done
  /\ CredentialsMissing
  /\ request.name = "upload_file"
  /\ Args.fileName = Lit("z")
  /\ Args.content = Str(<<" ", " ">>)
  /\ ResultText = << <<Lit("(x) Error: "), Str(<<"content", " is required">>)>> >>

\* C25: in listFiles and searchFiles a pageSize that is absent, empty,
\* non-numeric or parses to 0 results in a remote page size of 10 (the
\* default), not 1; a negative pageSize results in 1 and a pageSize above
\* 100 results in 100.
C25_PageSizeDefaultsAndClamps ==
  (InCall /\ request.name \in {"list_files", "search_files"}
     /\ Len(calls) >= 1) =>
    LET given == Args.pageSize
        parsed == parseInt(given)
        sent == calls[1].pageSize
    IN /\ calls[1].api = "files.list"
       /\ given \in {Undef, Str(<<>>)} => sent = 10
       /\ (given # Undef /\ IsNaN(parsed)) => sent = 10
       /\ (given # Undef /\ ~IsNaN(parsed) /\ parsed.n = 0) => sent = 10
       /\ (given # Undef /\ ~IsNaN(parsed) /\ parsed.n < 0) => sent = 1
       /\ (given # Undef /\ ~IsNaN(parsed) /\ parsed.n > 100) => sent = 100
       /\ given \in {Str(<<"a", "b", "c">>), Lit("abc"), Str(<<"0">>),
                     Str(<<"-", "0">>)} => sent = 10
       /\ given = Str(<<"-", "3">>) => sent = 1
       /\ given \in {Str(<<"1", "0", "1">>), Str(<<"9", "9", "9">>)} =>
            sent = 100

C25_Witness ==
  /\ InCall
  /\ request.name = "search_files"
  /\ Args.pageSize = Str(<<"0">>)
  /\ Len(calls) = 1
  /\ calls[1].api = "files.list"
  /\ calls[1].pageSize = 10

====
